---- MODULE Spec2Model ----
(***************************************************************************)
(* sdbus-c++ convenience API: the fluent builders of                       *)
(* ConvenienceApiClasses.inl (SignalEmitter, MethodInvoker,                *)
(* AsyncMethodInvoker, ...) and the asynchronous reply plumbing.           *)
(*                                                                         *)
(* One builder object is alive at a time (the slot is reused by the next   *)
(* constructor).  The surrounding program is the environment: it may throw *)
(* and catch exceptions at any moment, which is all a builder ever sees of *)
(* it (std::uncaught_exceptions()).  A builder may be a temporary, a named *)
(* object or heap allocated, so its destruction is not tied to the scope   *)
(* that was active at its construction.                                    *)
(*                                                                         *)
(* assert() is modelled as in a debug build: a failing assertion aborts.   *)
(***************************************************************************)
EXTENDS Integers, Sequences, FiniteSets, TLC

\* ------------------------------------------------------------------------
\* Bounds of the model
\* ------------------------------------------------------------------------

\* most exceptions in flight at once
MaxUncaught == 2
\* most arguments serialized into one message
MaxArgs == 2
\* most IProxy::callMethod invocations recorded per builder
MaxCalls == 1
\* most signals given to one signal handler
MaxSignals == 2
\* most fields of a Struct / std::tuple, most parameters of a callable
MaxFields == 2
\* most terminal steps followed on one AsyncMethodInvoker
MaxCommits == 2
\* most registrations handed out as a Slot
MaxRegistrations == 2
\* most replies, errors and timeouts that come for one asynchronous call
MaxArrivals == 2
\* most cancel() calls on one PendingAsyncCall
MaxCancels == 2
\* most emitDataSignal calls on one adaptor
MaxEmits == 2

\* ------------------------------------------------------------------------
\* Inputs
\* ------------------------------------------------------------------------

Interfaces == {"org.a"}
Members == {"X"}
ArgPacks == {<<1, 2>>}
\* packs that tell the order of two calls apart
OrderedPacks == {<<1, 2>>, <<3>>}
Timeouts == {5}

\* typed values of a reply payload: D-Bus type code and value
Int7 == [t |-> "i", v |-> "7"]
Int3 == [t |-> "i", v |-> "3"]
StrX == [t |-> "s", v |-> "x"]
\* payloads of the replies the peer may send
Replies == {<<>>, <<Int7>>, <<Int3, StrX>>, <<StrX>>}
\* the D-Bus types of the output variables / callback parameters
OutTypes == {<<>>, <<"i">>, <<"i", "s">>, <<"s">>}
\* properties: interfaces, names and values the caller may pass
PropInterfaces == {"org.a", "org.b"}
PropNames == {"p", "q"}
PropValues == {"1", "2"}
\* payloads of the replies to Get and to GetAll
PropReplies ==
    {<<[t |-> "v", v |-> "7"]>>, <<[t |-> "a{sv}", v |-> "p=7"]>>, <<>>}
\* names of the errors a peer may answer with
RemoteErrors == {"org.peer.Error.A", "org.peer.Error.B"}
\* name of the error thrown by reply >> args
DeserializeError == "org.sdbuscpp.Error.Deserialize"
\* an exception of the user's callback, as seen by the dispatch loop
CallbackException == "callback exception"
\* the same for the synchronous call of a MethodInvoker
SyncReplies == {<<>>, <<Int7>>}
SyncOutTypes == {<<>>, <<"i">>}

VARIABLES
    \* ---- the program around the builder
    uncaught,        \* std::uncaught_exceptions()
    aborted,         \* a failing assert() aborted the process
    packs,           \* the argument packs the program passes to withArguments
    \* ---- the builder object
    kind,            \* class of the builder in the slot
    life,            \* "none" | "live" | "destroyed"
    exceptions_,     \* SignalEmitter::exceptions_ / MethodInvoker::exceptions_
    signalName_,     \* SignalEmitter::signalName_
    methodName_,     \* MethodInvoker::methodName_ / AsyncMethodInvoker::methodName_
    signal_,         \* SignalEmitter::signal_
    method_,         \* MethodInvoker::method_ / AsyncMethodInvoker::method_
    timeout_,        \* MethodInvoker::timeout_ / AsyncMethodInvoker::timeout_
    methodCalled_,   \* MethodInvoker::methodCalled_
    \* ---- the collaborators (IObject, IProxy) and the caller, as seen by
    \* ---- this builder
    emitted,         \* messages handed to IObject::emitSignal
    published,       \* signals the Object put on the bus
    callCount,       \* number of IProxy::callMethod invocations (both overloads)
    lastCall,        \* the latest of them
    results,         \* the caller's variables given to storeResultsTo
    \* ---- history of the builder (not program state)
    ops,             \* which of the Recorded member functions were invoked
    lastOp,          \* the member function invoked last, the destructor aside
    minSince,        \* lowest uncaught count seen since construction
    threw,           \* an exception was thrown since construction
    dtorAt,          \* uncaught count when the destructor ran, -1 before
    dtorRaised       \* the destructor let an exception out
VARIABLES
    \* ---- one asynchronous call and its reply handler
    pending,         \* state of the asynchronous call
    handler,         \* the reply handler registered with the proxy
    callbackLog,     \* invocations of the user callback
    promise,         \* shared state of the std::promise / std::future
    escaped,         \* what left the reply handler towards the dispatch loop
    delivered        \* what the proxy gave to the reply handler (history)
VARIABLES
    \* ---- one SignalSubscriber and the signal handler it registers
    subscriber,      \* the SignalSubscriber object
    signalHandler_,  \* the handler given to IProxy::registerSignalHandler
    signals,         \* payloads of the signals the proxy gave to the handler
    signalLog,       \* invocations of the user callback, one entry per signal
    signalEscaped    \* what left the handler towards the proxy, per signal
VARIABLES
    \* ---- one synchronous property accessor
    accessor,        \* PropertyGetter / PropertySetter / AllPropertiesGetter
    propCalls,       \* the IProxy::callMethod invocations it caused
    propResult       \* how its terminal step ended
VARIABLES
    \* ---- one instantiation of the signature templates
    sigType,         \* the type (or callable) the signature is asked of
    sigState,        \* "declared" | "derived"
    sigValue,        \* signature_of<T>::value, a std::array of characters
    sigValid,        \* signature_of<T>::is_valid
    sigTrivial       \* signature_of<T>::is_trivial_dbus_type
VARIABLES
    \* ---- Slot objects and the registrations behind them
    slots,           \* per Slot object: its life and the pointer it holds
    registered,      \* number of registrations made so far
    deregistered     \* per registration: how often its deleter was invoked
VARIABLES
    \* ---- one asynchronous call and its PendingAsyncCall
    pendingCall,     \* state of the call and the types of its callback
    handlerRuns,     \* the runs of the reply handler, in order
    cancelLog,       \* cancel() calls returned, and the runs seen at the first
    arrivals         \* replies, errors and timeouts that came for the call
VARIABLES
    \* ---- the generated perftests_adaptor
    adaptor,         \* "none", "constructed", or "failed" in its constructor
    vtable,          \* what is registered on object_, in order
    emitCalls        \* the emitDataSignal calls made, in order

fields == <<exceptions_, signalName_, methodName_, signal_, method_, timeout_,
            methodCalled_>>
collaborators == <<emitted, published, callCount, lastCall, results>>
history == <<ops, lastOp, minSince, threw, dtorAt, dtorRaised>>
builderVars ==
    <<uncaught, aborted, packs, kind, life, fields, collaborators, history>>
asyncVars == <<pending, handler, callbackLog, promise, escaped, delivered>>
signalVars == <<subscriber, signalHandler_, signals, signalLog, signalEscaped>>
\* the state outside the fluent call builders and their reply plumbing
propVars == <<accessor, propCalls, propResult>>
sigVars == <<sigType, sigState, sigValue, sigValid, sigTrivial>>
slotVars == <<slots, registered, deregistered>>
callVars == <<pendingCall, handlerRuns, cancelLog, arrivals>>
adaptorVars == <<adaptor, vtable, emitCalls>>
sideVars == <<signalVars, propVars, sigVars, slotVars, callVars, adaptorVars>>
vars == <<builderVars, asyncVars, sideVars>>

\* ------------------------------------------------------------------------
\* Message (Message.h is not part of the sources at hand)
\* ------------------------------------------------------------------------

\* a default-constructed Message: isValid() is false
InvalidMessage ==
    [valid |-> FALSE, type |-> "none", interface |-> "", member |-> "",
     args |-> <<>>, noReply |-> FALSE]

isValid(m) == m.valid

\* IObject::createSignal(interfaceName, signalName)
createSignal(interfaceName, signalName) ==
    [valid |-> TRUE, type |-> "signal", interface |-> interfaceName,
     member |-> signalName, args |-> <<>>, noReply |-> FALSE]

\* IProxy::createMethodCall(interfaceName, methodName)
createMethodCall(interfaceName, methodName) ==
    [valid |-> TRUE, type |-> "call", interface |-> interfaceName,
     member |-> methodName, args |-> <<>>, noReply |-> FALSE]

\* mutant of the definition below: the arguments go in front
serialize_pack_in_front(m, args) == [m EXCEPT !.args = args \o @]

\* detail::serialize_pack(msg, args...): appends the arguments in order
serialize_pack(m, args) == [m EXCEPT !.args = @ \o args]

\* MethodCall::dontExpectReply()
Message_dontExpectReply(m) == [m EXCEPT !.noReply = TRUE]

\* a value-initialized variable of D-Bus type t
Default(t) == IF t = "i" THEN "0" ELSE ""

\* position of the first output that cannot be read from the payload (the
\* payload ended, or holds another type there); 0 when all can be read
FailAt(types, payload) ==
    LET bad == {k \in 1 .. Len(types) :
                   k > Len(payload) \/ payload[k].t # types[k]}
    IN  IF bad = {} THEN 0 ELSE CHOOSE k \in bad : \A j \in bad : k <= j

\* reply >> args / detail::deserialize_pack(reply, args...): reads the outputs
\* in order; it throws at the first one that cannot be read, leaving the
\* later ones as they were (value-initialized)
Deserialize(types, payload) ==
    LET k == FailAt(types, payload)
    IN  [ok |-> (k = 0),
         args |-> [i \in 1 .. Len(types) |->
                      IF k = 0 \/ i < k THEN payload[i].v ELSE Default(types[i])]]

\* IObject::emitSignal(message): the ways it can end
emitSignal_outcomes(m) ==
    IF isValid(m) /\ m.type = "signal" THEN {"published", "error"} ELSE {"error"}

\* IProxy::callMethod(message, timeout): the ways the synchronous call can end
callMethod_outcomes(m) ==
    IF isValid(m) /\ m.type = "call" THEN {"reply", "error"} ELSE {"error"}

\* the record of one IProxy::callMethod invocation; the synchronous overload
\* registers no reply handler and blocks for the reply unless the message
\* is marked no-reply
SyncCall(m, t) ==
    [msg |-> m, timeout |-> t, handler |-> FALSE, waited |-> ~m.noReply]

AsyncCall(m, t) ==
    [msg |-> m, timeout |-> t, handler |-> TRUE, waited |-> FALSE]

\* no call yet
NoCall == SyncCall(InvalidMessage, 0)

\* ------------------------------------------------------------------------
\* Steps of a builder
\* ------------------------------------------------------------------------

\* the member functions whose invocation the history keeps
Recorded ==
    {"onInterface", "storeResultsTo", "uponReplyInvoke", "getResultAsFuture"}

\* a member function runs on the live builder of class k; the asynchronous
\* call plumbing is not touched by the builders' own code
OnLive(k) ==
    ~aborted /\ life = "live" /\ kind = k /\ UNCHANGED <<packs, sideVars>>

Live(k) == OnLive(k) /\ UNCHANGED asyncVars

\* the member function `name' ran (to its end, or until it threw)
Ran(name) ==
    /\ ops' = ops \cup ({name} \cap Recorded)
    /\ lastOp' = name
    /\ UNCHANGED <<aborted, kind, life, dtorAt, dtorRaised>>

\* an exception leaves the running member function
Raise ==
    /\ uncaught' = uncaught + 1
    /\ threw' = TRUE
    /\ UNCHANGED minSince

NoRaise == UNCHANGED <<uncaught, threw, minSince>>

CanRaise == uncaught < MaxUncaught

\* assert(cond) failed in member function `name': abort()
Abort(name) ==
    /\ aborted' = TRUE
    /\ ops' = ops \cup ({name} \cap Recorded)
    /\ lastOp' = name
    /\ UNCHANGED <<uncaught, kind, life, fields, collaborators, minSince,
                   threw, dtorAt, dtorRaised>>

\* no reply handler is registered
NoHandler == [registered |-> FALSE, types |-> <<>>, future |-> FALSE]

\* no std::promise exists
NoPromise ==
    [state |-> "none", shape |-> "", v |-> <<>>, error |-> "none", sets |-> 0]

NoDelivery ==
    [ran |-> FALSE, reply |-> <<>>, error |-> "none", cbThrows |-> FALSE]

\* no asynchronous call was made
AsyncIdle ==
    /\ pending = "none"
    /\ handler = NoHandler
    /\ callbackLog = <<>>
    /\ promise = NoPromise
    /\ escaped = "none"
    /\ delivered = NoDelivery

\* a fresh builder takes the slot
Fresh(k) ==
    /\ ~aborted
    /\ life # "live"
    /\ kind' = k
    /\ life' = "live"
    /\ signal_' = InvalidMessage
    /\ method_' = InvalidMessage
    /\ timeout_' = 0
    /\ methodCalled_' = FALSE
    /\ emitted' = <<>>
    /\ published' = <<>>
    /\ callCount' = 0
    /\ lastCall' = NoCall
    /\ results' = <<>>
    /\ ops' = {}
    /\ lastOp' = "ctor"
    /\ minSince' = uncaught
    /\ threw' = FALSE
    /\ dtorAt' = -1
    /\ dtorRaised' = FALSE
    /\ UNCHANGED <<uncaught, aborted, packs>>
    /\ pending' = "none"
    /\ handler' = NoHandler
    /\ callbackLog' = <<>>
    /\ promise' = NoPromise
    /\ escaped' = "none"
    /\ delivered' = NoDelivery
    /\ UNCHANGED sideVars

\* the destructor ran; `raised': it let an exception out
Destroyed(raised) ==
    /\ life' = "destroyed"
    /\ dtorAt' = uncaught
    /\ dtorRaised' = raised
    /\ uncaught' = IF raised THEN uncaught + 1 ELSE uncaught
    /\ UNCHANGED <<aborted, kind, ops, lastOp, minSince, threw>>

\* ------------------------------------------------------------------------
\* The program around the builder
\* ------------------------------------------------------------------------

\* some code of the program throws: one more exception is in flight
Throw ==
    /\ ~aborted
    /\ CanRaise
    /\ uncaught' = uncaught + 1
    /\ threw' = (threw \/ life = "live")
    /\ UNCHANGED <<aborted, packs, kind, life, fields, collaborators, ops,
                   lastOp, minSince, dtorAt, dtorRaised>>
    /\ UNCHANGED <<asyncVars, sideVars>>

\* a handler is entered: the innermost exception in flight is caught
Catch ==
    /\ ~aborted
    /\ uncaught > 0
    /\ uncaught' = uncaught - 1
    /\ minSince' = IF life = "live" /\ uncaught - 1 < minSince
                   THEN uncaught - 1 ELSE minSince
    /\ UNCHANGED <<aborted, packs, kind, life, fields, collaborators, ops,
                   lastOp, threw, dtorAt, dtorRaised>>
    /\ UNCHANGED <<asyncVars, sideVars>>

\* ------------------------------------------------------------------------
\* SignalEmitter
\* ------------------------------------------------------------------------

SignalEmitter_ctor ==
    \E n \in Members :
        /\ Fresh("SignalEmitter")
        /\ signalName_' = n
        /\ methodName_' = ""
        /\ exceptions_' = uncaught

\* mutants of the test below: no test at all; an invalid message is not sent
SignalEmitter_dtor_skips_never == FALSE

SignalEmitter_dtor_skips_invalid == uncaught # exceptions_ \/ ~isValid(signal_)

\* the test that opens ~SignalEmitter: leave without emitting
SignalEmitter_dtor_skips == uncaught # exceptions_

SignalEmitter_dtor ==
    /\ Live("SignalEmitter")
    /\ UNCHANGED <<fields, callCount, lastCall, results>>
    /\ IF SignalEmitter_dtor_skips
       THEN /\ Destroyed(FALSE)
            /\ UNCHANGED <<emitted, published>>
       ELSE /\ emitted' = Append(emitted, signal_)
            /\ \E outcome \in emitSignal_outcomes(signal_) :
                  IF outcome = "published"
                  THEN /\ published' = Append(published, signal_)
                       /\ Destroyed(FALSE)
                  ELSE /\ CanRaise
                       /\ UNCHANGED published
                       /\ Destroyed(TRUE)

SignalEmitter_onInterface ==
    \E i \in Interfaces :
        /\ Live("SignalEmitter")
        /\ Ran("onInterface")
        /\ signal_' = createSignal(i, signalName_)
        /\ NoRaise
        /\ UNCHANGED <<exceptions_, signalName_, methodName_, method_,
                       timeout_, methodCalled_, collaborators>>

SignalEmitter_withArguments ==
    \E args \in packs :
        /\ Live("SignalEmitter")
        /\ IF ~isValid(signal_)
           THEN Abort("withArguments")
           ELSE /\ Len(signal_.args) + Len(args) <= MaxArgs
                /\ Ran("withArguments")
                /\ UNCHANGED <<exceptions_, signalName_, methodName_, method_,
                               timeout_, methodCalled_, collaborators>>
                /\ \/ /\ signal_' = serialize_pack(signal_, args)
                      /\ NoRaise
                   \/ \E k \in 0 .. (Len(args) - 1) :
                         \* serializing argument k+1 throws
                         /\ CanRaise
                         /\ signal_' = serialize_pack(signal_, SubSeq(args, 1, k))
                         /\ Raise

\* ------------------------------------------------------------------------
\* MethodInvoker
\* ------------------------------------------------------------------------

MethodInvoker_ctor ==
    \E n \in Members :
        /\ Fresh("MethodInvoker")
        /\ signalName_' = ""
        /\ methodName_' = n
        /\ exceptions_' = uncaught

\* mutant of the test below: the exception count is not looked at
MethodInvoker_dtor_skips_called == methodCalled_

\* mutant of the test below: only a higher exception count is a failure
MethodInvoker_dtor_skips_higher == methodCalled_ \/ uncaught > exceptions_

\* the test that opens ~MethodInvoker: leave without calling
MethodInvoker_dtor_skips == methodCalled_ \/ uncaught # exceptions_

MethodInvoker_dtor ==
    /\ Live("MethodInvoker")
    /\ UNCHANGED <<fields, emitted, published, results>>
    /\ IF MethodInvoker_dtor_skips
       THEN /\ Destroyed(FALSE)
            /\ UNCHANGED <<callCount, lastCall>>
       ELSE /\ callCount' = callCount + 1
            /\ lastCall' = SyncCall(method_, timeout_)
            /\ \E outcome \in callMethod_outcomes(method_) :
                  IF outcome = "reply"
                  THEN Destroyed(FALSE)
                  ELSE CanRaise /\ Destroyed(TRUE)

MethodInvoker_onInterface ==
    \E i \in Interfaces :
        /\ Live("MethodInvoker")
        /\ Ran("onInterface")
        /\ method_' = createMethodCall(i, methodName_)
        /\ NoRaise
        /\ UNCHANGED <<exceptions_, signalName_, methodName_, signal_,
                       timeout_, methodCalled_, collaborators>>

MethodInvoker_withTimeout ==
    \E usec \in Timeouts :
        /\ Live("MethodInvoker")
        /\ Ran("withTimeout")
        /\ timeout_' = usec
        /\ NoRaise
        /\ UNCHANGED <<exceptions_, signalName_, methodName_, signal_,
                       method_, methodCalled_, collaborators>>

MethodInvoker_withArguments ==
    \E args \in packs :
        /\ Live("MethodInvoker")
        /\ IF ~isValid(method_)
           THEN Abort("withArguments")
           ELSE /\ Len(method_.args) + Len(args) <= MaxArgs
                /\ Ran("withArguments")
                /\ UNCHANGED <<exceptions_, signalName_, methodName_, signal_,
                               timeout_, methodCalled_, collaborators>>
                /\ \/ /\ method_' = serialize_pack(method_, args)
                      /\ NoRaise
                   \/ \E k \in 0 .. (Len(args) - 1) :
                         \* serializing argument k+1 throws
                         /\ CanRaise
                         /\ method_' = serialize_pack(method_, SubSeq(args, 1, k))
                         /\ Raise

MethodInvoker_storeResultsTo ==
    \E types \in SyncOutTypes :
        /\ Live("MethodInvoker")
        /\ IF ~isValid(method_)
           THEN Abort("storeResultsTo")
           ELSE /\ callCount < MaxCalls
                /\ Ran("storeResultsTo")
                /\ callCount' = callCount + 1
                /\ lastCall' = SyncCall(method_, timeout_)
                /\ UNCHANGED <<exceptions_, signalName_, methodName_, signal_,
                               method_, timeout_, emitted, published>>
                /\ \E outcome \in callMethod_outcomes(method_) :
                      IF outcome = "error"
                      THEN \* callMethod throws: the next line is not reached
                           /\ CanRaise
                           /\ UNCHANGED <<methodCalled_, results>>
                           /\ Raise
                      ELSE /\ methodCalled_' = TRUE
                           /\ \E reply \in (IF method_.noReply THEN {<<>>}
                                                               ELSE SyncReplies) :
                                 LET r == Deserialize(types, reply)
                                 IN  /\ results' = r.args
                                     /\ IF r.ok THEN NoRaise
                                                ELSE CanRaise /\ Raise

\* mutant of the definition below: the message is left as it is
MethodInvoker_dontExpectReply_forgets == method_

\* the message after method_.dontExpectReply()
MethodInvoker_dontExpectReply_marks == Message_dontExpectReply(method_)

MethodInvoker_dontExpectReply ==
    /\ Live("MethodInvoker")
    /\ IF ~isValid(method_)
       THEN Abort("dontExpectReply")
       ELSE /\ Ran("dontExpectReply")
            /\ method_' = MethodInvoker_dontExpectReply_marks
            /\ NoRaise
            /\ UNCHANGED <<exceptions_, signalName_, methodName_, signal_,
                           timeout_, methodCalled_, collaborators>>

\* ------------------------------------------------------------------------
\* AsyncMethodInvoker
\* ------------------------------------------------------------------------

AsyncMethodInvoker_ctor ==
    \E n \in Members :
        /\ Fresh("AsyncMethodInvoker")
        /\ signalName_' = ""
        /\ methodName_' = n
        /\ exceptions_' = 0

\* mutant of the definition below: a destructor that calls the method
AsyncMethodInvoker_dtor_calls ==
    /\ Live("AsyncMethodInvoker")
    /\ Destroyed(FALSE)
    /\ callCount' = callCount + 1
    /\ lastCall' = AsyncCall(method_, timeout_)
    /\ UNCHANGED <<fields, emitted, published, results>>

\* the class defines no destructor: nothing is committed at scope exit
AsyncMethodInvoker_dtor ==
    /\ Live("AsyncMethodInvoker")
    /\ Destroyed(FALSE)
    /\ UNCHANGED <<fields, collaborators>>

AsyncMethodInvoker_onInterface ==
    \E i \in Interfaces :
        /\ Live("AsyncMethodInvoker")
        /\ Ran("onInterface")
        /\ method_' = createMethodCall(i, methodName_)
        /\ NoRaise
        /\ UNCHANGED <<exceptions_, signalName_, methodName_, signal_,
                       timeout_, methodCalled_, collaborators>>

AsyncMethodInvoker_withTimeout ==
    \E usec \in Timeouts :
        /\ Live("AsyncMethodInvoker")
        /\ Ran("withTimeout")
        /\ timeout_' = usec
        /\ NoRaise
        /\ UNCHANGED <<exceptions_, signalName_, methodName_, signal_,
                       method_, methodCalled_, collaborators>>

AsyncMethodInvoker_withArguments ==
    \E args \in packs :
        /\ Live("AsyncMethodInvoker")
        /\ IF ~isValid(method_)
           THEN Abort("withArguments")
           ELSE /\ Len(method_.args) + Len(args) <= MaxArgs
                /\ Ran("withArguments")
                /\ UNCHANGED <<exceptions_, signalName_, methodName_, signal_,
                               timeout_, methodCalled_, collaborators>>
                /\ \/ /\ method_' = serialize_pack(method_, args)
                      /\ NoRaise
                   \/ \E k \in 0 .. (Len(args) - 1) :
                         \* serializing argument k+1 throws
                         /\ CanRaise
                         /\ method_' = serialize_pack(method_, SubSeq(args, 1, k))
                         /\ Raise

\* std::make_shared<std::promise<...>>(): nothing stored yet
EmptyPromise == [NoPromise EXCEPT !.state = "empty"]

\* future_return_t<_Args...> holding the values args: void for none, the
\* type itself for one, a std::tuple for several
future_return(args) ==
    [shape |-> IF Len(args) = 0 THEN "void"
               ELSE IF Len(args) = 1 THEN "T" ELSE "tuple",
     v |-> args]

\* std::promise::set_value / set_exception on the shared state p; a promise
\* that was satisfied already keeps what it holds (the call throws)
set_value(p, val) ==
    IF p.state # "empty" THEN [p EXCEPT !.sets = @ + 1]
    ELSE [state |-> "value", shape |-> val.shape, v |-> val.v,
          error |-> "none", sets |-> p.sets + 1]

set_exception(p, e) ==
    IF p.state # "empty" THEN [p EXCEPT !.sets = @ + 1]
    ELSE [state |-> "exception", shape |-> "", v |-> <<>>,
          error |-> e, sets |-> p.sets + 1]

\* mutant of the callback below: the error pointer is not looked at
getResultAsFuture_callback_blind(p, error, args) ==
    set_value(p, future_return(args))

\* the callback getResultAsFuture hands to uponReplyInvoke
getResultAsFuture_callback(p, error, args) ==
    IF error = "none"
    THEN set_value(p, future_return(args))
    ELSE set_exception(p, error)

\* the promise after the invocations `calls' of that callback
RECURSIVE getResultAsFuture_callbacks(_, _)
getResultAsFuture_callbacks(p, calls) ==
    IF calls = <<>> THEN p
    ELSE getResultAsFuture_callbacks(
             getResultAsFuture_callback(p, calls[1].error, calls[1].args),
             Tail(calls))

\* sdbus::apply(callback, error, args): one invocation of the callback
Invocation(error, args) == [error |-> error, args |-> args]

\* what leaves the callback when it was invoked
Thrown(cbThrows) == IF cbThrows THEN CallbackException ELSE "none"

\* mutants of the catch block below: one without its return, and none at all
asyncReplyHandler_catch_falls_through(e, args, cbThrows) ==
    [calls |-> <<Invocation(e, args)>>, left |-> cbThrows,
     escaped |-> Thrown(cbThrows)]

asyncReplyHandler_catch_absent(e, args, cbThrows) ==
    [calls |-> <<>>, left |-> TRUE, escaped |-> e]

\* the catch block of the reply handler: the callback gets the error, then
\* the handler returns
asyncReplyHandler_catch(e, args, cbThrows) ==
    [calls |-> <<Invocation(e, args)>>, left |-> TRUE,
     escaped |-> Thrown(cbThrows)]

\* the reply handler built by uponReplyInvoke for a callback with parameters
\* of the given types, run on (reply, error): the invocations of the callback
\* it makes and what leaves it
asyncReplyHandler(types, reply, error, cbThrows) ==
    LET fresh == [i \in 1 .. Len(types) |-> Default(types[i])]
        r == IF error = "none" THEN Deserialize(types, reply)
             ELSE [ok |-> TRUE, args |-> fresh]
        c == IF r.ok THEN [calls |-> <<>>, left |-> FALSE, escaped |-> "none"]
             ELSE asyncReplyHandler_catch(DeserializeError, r.args, cbThrows)
    IN  IF c.left
        THEN [calls |-> c.calls, escaped |-> c.escaped]
        ELSE [calls |-> c.calls \o <<Invocation(error, r.args)>>,
              escaped |-> Thrown(cbThrows)]

\* uponReplyInvoke, also when run by getResultAsFuture with its own callback:
\* the call and its reply handler go to the proxy
AsyncMethodInvoker_commit(name, types, future) ==
    /\ OnLive("AsyncMethodInvoker")
    /\ IF ~isValid(method_)
       THEN Abort(name) /\ UNCHANGED asyncVars
       ELSE /\ callCount < MaxCommits
            /\ Ran(name)
            /\ callCount' = callCount + 1
            /\ lastCall' = AsyncCall(method_, timeout_)
            /\ UNCHANGED <<fields, emitted, published, results>>
            /\ \E outcome \in callMethod_outcomes(method_) :
                  IF outcome = "reply"
                  THEN \* a new call with a handler, a callback and (for a
                       \* future) a promise of its own: it is the one followed
                       /\ NoRaise
                       /\ pending' = "pending"
                       /\ handler' = [registered |-> TRUE, types |-> types,
                                      future |-> future]
                       /\ promise' = IF future THEN EmptyPromise ELSE NoPromise
                       /\ callbackLog' = <<>>
                       /\ escaped' = "none"
                       /\ delivered' = NoDelivery
                  ELSE /\ CanRaise
                       /\ Raise
                       /\ UNCHANGED asyncVars

AsyncMethodInvoker_uponReplyInvoke ==
    \E types \in OutTypes :
        AsyncMethodInvoker_commit("uponReplyInvoke", types, FALSE)

AsyncMethodInvoker_getResultAsFuture ==
    \E types \in OutTypes :
        AsyncMethodInvoker_commit("getResultAsFuture", types, TRUE)

\* the proxy got the answer to the pending call and runs the reply handler
\* once, with the reply or with an error
AsyncReplyHandler_run ==
    /\ ~aborted
    /\ pending = "pending"
    /\ \E reply \in Replies, error \in {"none"} \cup RemoteErrors,
          cbThrows \in (IF handler.future THEN {FALSE} ELSE BOOLEAN) :
          LET out == asyncReplyHandler(handler.types, reply, error, cbThrows)
          IN  /\ callbackLog' = callbackLog \o out.calls
              /\ promise' = IF handler.future
                            THEN getResultAsFuture_callbacks(promise, out.calls)
                            ELSE promise
              /\ escaped' = out.escaped
              /\ delivered' = [ran |-> TRUE, reply |-> reply, error |-> error,
                                cbThrows |-> cbThrows]
    /\ pending' = "completed"
    /\ UNCHANGED <<builderVars, handler, sideVars>>

\* ------------------------------------------------------------------------
\* SignalSubscriber
\* ------------------------------------------------------------------------

\* no SignalSubscriber exists
NoSubscriber == [state |-> "none", interfaceName_ |-> "", signalName_ |-> ""]

\* no signal handler is registered
NoSignalHandler ==
    [registered |-> FALSE, interface |-> "", member |-> "", types |-> <<>>,
     has_error_param |-> FALSE]

SignalIdle ==
    /\ subscriber = NoSubscriber
    /\ signalHandler_ = NoSignalHandler
    /\ signals = <<>>
    /\ signalLog = <<>>
    /\ signalEscaped = <<>>

\* a step of the subscriber or of its handler: the call builders stand still
SignalStep ==
    UNCHANGED <<builderVars, asyncVars, propVars, sigVars, slotVars, callVars,
                adaptorVars>>

SignalSubscriber_ctor ==
    \E n \in Members :
        /\ subscriber.state # "aborted"
        /\ subscriber' = [state |-> "created", interfaceName_ |-> "",
                          signalName_ |-> n]
        /\ signalHandler_' = NoSignalHandler
        /\ signals' = <<>>
        /\ signalLog' = <<>>
        /\ signalEscaped' = <<>>
        /\ SignalStep

\* the interface name is any string, the empty one included
SignalSubscriber_onInterface ==
    \E i \in Interfaces \cup {""} :
        /\ subscriber.state = "created"
        /\ subscriber' = [subscriber EXCEPT !.interfaceName_ = i]
        /\ UNCHANGED <<signalHandler_, signals, signalLog, signalEscaped>>
        /\ SignalStep

\* call(callback): _Function decides the parameter types and whether the
\* callback takes the leading error parameter
SignalSubscriber_call ==
    \E types \in OutTypes, has_error_param \in BOOLEAN :
        /\ subscriber.state = "created"
        /\ IF subscriber.interfaceName_ = ""
           THEN /\ subscriber' = [subscriber EXCEPT !.state = "aborted"]
                /\ UNCHANGED signalHandler_
           ELSE /\ subscriber' = [subscriber EXCEPT !.state = "subscribed"]
                /\ signalHandler_' =
                      [registered |-> TRUE,
                       interface |-> subscriber.interfaceName_,
                       member |-> subscriber.signalName_,
                       types |-> types,
                       has_error_param |-> has_error_param]
        /\ UNCHANGED <<signals, signalLog, signalEscaped>>
        /\ SignalStep

\* the catch block of the handler for a callback with error parameter
signalHandler_catch(e, args, cbThrows) ==
    [calls |-> <<Invocation(e, args)>>, left |-> TRUE,
     escaped |-> Thrown(cbThrows)]

\* mutant of the definition below: the exception is swallowed
signalHandler_throws_swallowed(e) == [calls |-> <<>>, escaped |-> "none"]

\* signal >> signalArgs throwing e where nothing catches it
signalHandler_throws(e) == [calls |-> <<>>, escaped |-> e]

\* the lambda registered by call(), run on a signal with the given payload:
\* the invocations of the callback it makes and what leaves it
signalHandler(has_error_param, types, payload, cbThrows) ==
    LET r == Deserialize(types, payload)
    IN  IF has_error_param
        THEN LET c == IF r.ok
                      THEN [calls |-> <<>>, left |-> FALSE, escaped |-> "none"]
                      ELSE signalHandler_catch(DeserializeError, r.args, cbThrows)
             IN  IF c.left
                 THEN [calls |-> c.calls, escaped |-> c.escaped]
                 ELSE [calls |-> c.calls \o <<Invocation("none", r.args)>>,
                       escaped |-> Thrown(cbThrows)]
        ELSE IF ~r.ok
             THEN signalHandler_throws(DeserializeError)
             ELSE [calls |-> <<Invocation("none", r.args)>>,
                   escaped |-> Thrown(cbThrows)]

\* the proxy got a signal of the subscribed interface and member and runs the
\* registered handler on it
SignalHandler_run ==
    /\ signalHandler_.registered
    /\ Len(signals) < MaxSignals
    /\ \E payload \in Replies, cbThrows \in BOOLEAN :
          LET out == signalHandler(signalHandler_.has_error_param,
                                   signalHandler_.types, payload, cbThrows)
          IN  /\ signals' = Append(signals, payload)
              /\ signalLog' = Append(signalLog, out.calls)
              /\ signalEscaped' = Append(signalEscaped, out.escaped)
    /\ UNCHANGED <<subscriber, signalHandler_>>
    /\ SignalStep

\* ------------------------------------------------------------------------
\* Synchronous property accessors
\* ------------------------------------------------------------------------

PropertiesInterface == "org.freedesktop.DBus.Properties"

\* a std::string argument, and Variant{value}
String(x) == [t |-> "s", v |-> x]

Variant(x) == [t |-> "v", v |-> x]

NoAccessor ==
    [kind |-> "none", state |-> "none", propertyName_ |-> "",
     interfaceName_ |-> "", alive |-> FALSE]

\* how the terminal step ended (raised, value) and what it was given
NoResult ==
    [raised |-> FALSE, value |-> "", dangling |-> FALSE, failed |-> "none",
     interface |-> "", reply |-> <<>>, dont_expect_reply |-> FALSE]

PropIdle ==
    /\ accessor = NoAccessor
    /\ propCalls = <<>>
    /\ propResult = NoResult

\* a step of an accessor: everything else stands still
PropStep ==
    UNCHANGED <<builderVars, asyncVars, signalVars, sigVars, slotVars, callVars,
                adaptorVars>>

\* mutant of the test below: a call made by storeResultsTo is forgotten
MethodInvoker_dtor_skips_with_forgetful(called, now, then) == now # then

\* the test that opens ~MethodInvoker, for an invoker that finds `now'
\* exceptions in flight, was constructed with `then', and has seen
\* storeResultsTo return from callMethod or not (`called')
MethodInvoker_dtor_skips_with(called, now, then) == called \/ now # then

\* the temporary MethodInvoker of proxy_.callMethod(member)
\*   .onInterface("org.freedesktop.DBus.Properties").withArguments(args)
\* followed by `terminal' ("storeResultsTo", "dontExpectReply" or "none"),
\* from its construction to its destruction at the end of the expression;
\* `fails' names the step that throws: "serialize" (withArguments), "call"
\* (callMethod), "deserialize" (within storeResultsTo) or "none"
TemporaryInvoker(member, args, terminal, fails) ==
    LET m0 == createMethodCall(PropertiesInterface, member)
        m1 == serialize_pack(m0, args)
        m2 == IF terminal = "dontExpectReply"
              THEN Message_dontExpectReply(m1) ELSE m1
        stores == terminal = "storeResultsTo" /\ fails # "serialize"
        called == stores /\ fails # "call"
        thrown == \/ fails = "serialize"
                  \/ stores /\ fails \in {"call", "deserialize"}
        explicit == IF stores THEN <<SyncCall(m1, 0)>> ELSE <<>>
        implicit == IF MethodInvoker_dtor_skips_with(
                           called, IF thrown THEN uncaught + 1 ELSE uncaught,
                           uncaught)
                    THEN <<>> ELSE <<SyncCall(m2, 0)>>
    IN  [calls |-> explicit \o implicit, raised |-> fails # "none"]

\* the constructors only store the proxy and the property name
Accessor_ctor(k, n) ==
    /\ accessor.state # "aborted"
    /\ accessor' = [kind |-> k, state |-> "created", propertyName_ |-> n,
                    interfaceName_ |-> "", alive |-> FALSE]
    /\ propCalls' = <<>>
    /\ propResult' = NoResult
    /\ PropStep

\* the ways a call that stores its results may fail, and what it returns:
\* the output variable is value-initialized and filled by storeResultsTo
Accessor_get(member, args, type) ==
    \E fails \in {"none", "serialize", "call"}, reply \in PropReplies :
        LET r == Deserialize(<<type>>, reply)
            f == IF fails = "none" /\ ~r.ok THEN "deserialize" ELSE fails
            t == TemporaryInvoker(member, args, "storeResultsTo", f)
        IN  /\ propCalls' = propCalls \o t.calls
            /\ propResult' = [raised |-> t.raised,
                              value |-> IF t.raised THEN "" ELSE r.args[1],
                              dangling |-> FALSE, failed |-> f,
                              interface |-> args[1].v, reply |-> reply,
                              dont_expect_reply |-> FALSE]
            /\ accessor' = [accessor EXCEPT !.state = "done"]
            /\ PropStep

PropertyGetter_ctor == \E n \in PropNames : Accessor_ctor("PropertyGetter", n)

PropertyGetter_onInterface ==
    \E i \in PropInterfaces :
        /\ accessor.kind = "PropertyGetter"
        /\ accessor.state = "created"
        /\ Accessor_get("Get", <<String(i), String(accessor.propertyName_)>>, "v")

AllPropertiesGetter_ctor == Accessor_ctor("AllPropertiesGetter", "")

AllPropertiesGetter_onInterface ==
    \E i \in PropInterfaces :
        /\ accessor.kind = "AllPropertiesGetter"
        /\ accessor.state = "created"
        /\ Accessor_get("GetAll", <<String(i)>>, "a{sv}")

PropertySetter_ctor == \E n \in PropNames : Accessor_ctor("PropertySetter", n)

\* interfaceName_ = &interfaceName: the setter keeps a pointer to the
\* caller's string
PropertySetter_onInterface ==
    \E i \in PropInterfaces :
        /\ accessor.kind = "PropertySetter"
        /\ accessor.state \in {"created", "named"}
        /\ accessor' = [accessor EXCEPT !.state = "named",
                                        !.interfaceName_ = i, !.alive = TRUE]
        /\ UNCHANGED <<propCalls, propResult>>
        /\ PropStep

\* the string given to onInterface ends its life (a temporary at the end of
\* its expression) while the setter is kept
PropertySetter_interfaceName_dies ==
    /\ accessor.kind = "PropertySetter"
    /\ accessor.state = "named"
    /\ accessor.alive
    /\ accessor' = [accessor EXCEPT !.alive = FALSE]
    /\ UNCHANGED <<propCalls, propResult>>
    /\ PropStep

\* what *interfaceName_ reads: the string, or anything once it is gone
PropertySetter_interfaceName ==
    IF accessor.alive THEN {accessor.interfaceName_}
    ELSE PropInterfaces \cup {"(garbage)"}

\* mutant of the definition below: the flag on both overloads
PropertySetter_terminal_always(dont_expect_reply) == "dontExpectReply"

\* what follows withArguments in the two overloads of toValue(const Variant&)
PropertySetter_terminal(dont_expect_reply) ==
    IF dont_expect_reply THEN "dontExpectReply" ELSE "none"

\* toValue(value) and toValue(value, dont_expect_reply), for a Variant and,
\* through Variant{value}, for any other value
PropertySetter_toValue(dont_expect_reply) ==
    /\ accessor.kind = "PropertySetter"
    /\ accessor.state \in {"created", "named"}
    /\ IF accessor.state = "created"
       THEN /\ accessor' = [accessor EXCEPT !.state = "aborted"]
            /\ UNCHANGED <<propCalls, propResult>>
       ELSE \E value \in PropValues, fails \in {"none", "serialize", "call"},
               i \in PropertySetter_interfaceName :
               LET t == TemporaryInvoker(
                            "Set",
                            <<String(i), String(accessor.propertyName_),
                              Variant(value)>>,
                            PropertySetter_terminal(dont_expect_reply), fails)
               IN  /\ propCalls' = propCalls \o t.calls
                   /\ propResult' = [raised |-> t.raised, value |-> value,
                                     dangling |-> ~accessor.alive,
                                     failed |-> fails,
                                     interface |-> accessor.interfaceName_,
                                     reply |-> <<>>,
                                     dont_expect_reply |-> dont_expect_reply]
                   /\ accessor' = [accessor EXCEPT !.state = "done"]
    /\ PropStep

PropertySetter_toValue_reply == PropertySetter_toValue(FALSE)

PropertySetter_toValue_dont_expect_reply == PropertySetter_toValue(TRUE)

\* ------------------------------------------------------------------------
\* Signatures of types (TypeTraits.h)
\* ------------------------------------------------------------------------

\* a C++ type: a template or type name and its type arguments
Type(c, args) == [c |-> c, args |-> args]

\* the types with a one-character signature of their own
BasicSignature ==
    [x \in {"bool", "uint8_t", "int16_t", "uint16_t", "int32_t", "uint32_t",
            "int64_t", "uint64_t", "double", "std::string", "Variant",
            "ObjectPath", "Signature", "UnixFd"} |->
        CASE x = "bool" -> "b"
          [] x = "uint8_t" -> "y"
          [] x = "int16_t" -> "n"
          [] x = "uint16_t" -> "q"
          [] x = "int32_t" -> "i"
          [] x = "uint32_t" -> "u"
          [] x = "int64_t" -> "x"
          [] x = "uint64_t" -> "t"
          [] x = "double" -> "d"
          [] x = "std::string" -> "s"
          [] x = "Variant" -> "v"
          [] x = "ObjectPath" -> "o"
          [] x = "Signature" -> "g"
          [] x = "UnixFd" -> "h"]

\* the types whose signature_of derives from signature_of<std::string>
StringLike == {"std::string_view", "char*", "const char*", "char[N]",
               "BusName", "InterfaceName", "MemberName"}

\* const, volatile, const volatile and reference: signature_of<_T>
Qualifiers == {"const", "volatile", "const volatile", "&"}

\* operator+ on std::array: the elements of lhs, then those of rhs
Plus(lhs, rhs) ==
    [i \in 1 .. (Len(lhs) + Len(rhs)) |->
        IF i <= Len(lhs) THEN lhs[i] ELSE rhs[i - Len(lhs)]]

\* (std::array<char, 0>{} + ... + signature_of_v<_Types>), given the values
RECURSIVE FoldLeft(_, _)
FoldLeft(acc, values) ==
    IF values = <<>> THEN acc
    ELSE FoldLeft(Plus(acc, Head(values)), Tail(values))

\* (signature_of_v<_ValueTypes> + ...), for at least one value
RECURSIVE FoldRight(_)
FoldRight(values) ==
    IF Len(values) = 1 THEN values[1]
    ELSE Plus(Head(values), FoldRight(Tail(values)))

\* mutant of the definition below: a tuple written like a struct
signature_of_tuple_bracketed(values) ==
    Plus(<<"(">>, Plus(FoldLeft(<<>>, values), <<")">>))

\* signature_of<std::tuple<_Types...>>::value, given the values of _Types
signature_of_tuple(values) == FoldLeft(<<>>, values)

\* signature_of<Struct<_ValueTypes...>>::value
signature_of_Struct(values) ==
    Plus(Plus(<<"(">>, FoldRight(values)), <<")">>)

\* signature_of<DictEntry<_T1, _T2>>::value, given that of std::tuple<_T1, _T2>
signature_of_DictEntry(pair) == Plus(Plus(<<"{">>, pair), <<"}">>)

\* signature_of<std::vector<_Element>>::value
signature_of_vector(element) == Plus(<<"a">>, element)

\* mutant of the definition below: the entries without their braces
signature_of_map_flat(k, v, entry) == Plus(<<"a">>, Plus(k, v))

\* signature_of<std::map<_Key, _Value>>::value, given the values of _Key and
\* _Value and that of DictEntry<_Key, _Value>
signature_of_map(k, v, entry) == Plus(<<"a">>, entry)

\* signature_of<T>::value
RECURSIVE signature_of(_)
signature_of(T) ==
    LET values == [i \in 1 .. Len(T.args) |-> signature_of(T.args[i])]
    IN  CASE T.c \in Qualifiers -> values[1]
          [] T.c = "void" -> <<>>
          [] T.c \in DOMAIN BasicSignature -> <<BasicSignature[T.c]>>
          [] T.c \in StringLike -> signature_of(Type("std::string", <<>>))
          [] T.c = "enum" -> values[1]
          [] T.c = "Struct" -> signature_of_Struct(values)
          [] T.c = "std::variant" -> signature_of(Type("Variant", <<>>))
          [] T.c = "DictEntry" ->
                signature_of_DictEntry(signature_of(Type("std::tuple", T.args)))
          [] T.c = "std::vector" -> signature_of_vector(values[1])
          [] T.c \in {"std::array", "std::span"} ->
                signature_of(Type("std::vector", T.args))
          [] T.c = "std::map" ->
                signature_of_map(values[1], values[2],
                                 signature_of(Type("DictEntry", T.args)))
          [] T.c = "std::unordered_map" -> signature_of(Type("std::map", T.args))
          [] T.c = "std::tuple" -> signature_of_tuple(values)

\* signature_of<T>::is_valid
RECURSIVE is_valid(_)
is_valid(T) ==
    CASE T.c \in Qualifiers -> is_valid(T.args[1])
      [] T.c = "enum" -> is_valid(T.args[1])
      [] T.c = "std::tuple" -> FALSE
      [] OTHER -> TRUE

\* mutant of the definition below: every type with a character of its own
is_trivial_basic_all(c) == c \in DOMAIN BasicSignature

\* the specializations that set is_trivial_dbus_type = true
is_trivial_basic(c) ==
    c \in {"bool", "uint8_t", "int16_t", "uint16_t", "int32_t", "uint32_t",
           "int64_t", "uint64_t", "double"}

\* mutant of the definition below: an enumeration is never trivial
is_trivial_enum_never(underlying) == FALSE

\* signature_of<_Enum> inherits the member of its underlying type
is_trivial_enum(underlying) == underlying

\* signature_of<T>::is_trivial_dbus_type
RECURSIVE is_trivial_dbus_type(_)
is_trivial_dbus_type(T) ==
    CASE T.c \in Qualifiers -> is_trivial_dbus_type(T.args[1])
      [] T.c = "enum" -> is_trivial_enum(is_trivial_dbus_type(T.args[1]))
      [] OTHER -> is_trivial_basic(T.c)

\* std::decay_t of a parameter type: reference and cv-qualifiers go, an
\* array becomes a pointer
RECURSIVE decay(_)
decay(T) ==
    IF T.c \in Qualifiers THEN decay(T.args[1])
    ELSE IF T.c = "char[N]" THEN Type("char*", <<>>) ELSE T

\* function_traits<F>::decayed_arguments_type for a callable with the
\* parameter list T.args: a leading std::optional<Error> or Result<...> is
\* not an input argument
tuple_of_function_input_arg_types(T) ==
    LET params == IF T.args # <<>>
                     /\ T.args[1].c \in {"std::optional<Error>", "Result"}
                  THEN Tail(T.args) ELSE T.args
    IN  Type("std::tuple", [i \in 1 .. Len(params) |-> decay(params[i])])

\* as_null_terminated(arr).data() read as a C string
value_as_string(arr) ==
    LET z == Plus(arr, <<"\\0">>)
        n == CHOOSE k \in 1 .. Len(z) :
                 z[k] = "\\0" /\ \A j \in 1 .. (k - 1) : z[j] # "\\0"
    IN  SubSeq(z, 1, n - 1)

\* signature_of_function_input_arguments<_Function>::value_as_string()
signature_of_function_input_arguments(T) ==
    value_as_string(signature_of(tuple_of_function_input_arg_types(T)))

\* the types the signature is asked of
Named(names) == {Type(n, <<>>) : n \in names}

Leaves == Named(DOMAIN BasicSignature \cup {"void", "char[N]", "BusName"})

\* field lists over the types S
Fields(S) == UNION {[1 .. n -> S] : n \in 0 .. MaxFields}

\* the types made by one template or qualifier from the types S
Made(S) ==
    {Type(c, <<t>>) : c \in Qualifiers \cup {"std::vector", "std::array",
                                             "std::span"}, t \in S}
    \cup {Type("enum", <<t>>) : t \in Named({"uint8_t", "int32_t"})}
    \cup {Type(c, <<k, v>>) : c \in {"std::map", "std::unordered_map",
                                     "DictEntry"}, k \in S, v \in S}
    \cup {Type("Struct", f) : f \in Fields(S) \ {<<>>}}
    \cup {Type(c, f) : c \in {"std::tuple", "std::variant"}, f \in Fields(S)}

\* some of those made from the leaves, to build upon
Nested ==
    Named({"int32_t", "std::string", "Variant"})
    \cup {Type("std::vector", <<Type("int32_t", <<>>)>>),
          Type("std::map", <<Type("std::string", <<>>), Type("Variant", <<>>)>>),
          Type("DictEntry", <<Type("std::string", <<>>), Type("int32_t", <<>>)>>),
          Type("Struct", <<Type("std::string", <<>>), Type("int32_t", <<>>)>>),
          Type("std::tuple", <<Type("int32_t", <<>>), Type("bool", <<>>)>>),
          Type("const", <<Type("double", <<>>)>>),
          Type("enum", <<Type("uint8_t", <<>>)>>)}

Types == Leaves \cup Made(Leaves) \cup Made(Nested)

\* parameter types of the callables
ParamTypes ==
    Named({"int32_t", "char[N]"})
    \cup {Type("&", <<Type("const", <<Type("std::string", <<>>)>>)>>),
          Type("const", <<Type("Variant", <<>>)>>),
          Type("std::vector", <<Type("int32_t", <<>>)>>),
          Type("Struct", <<Type("std::string", <<>>), Type("int32_t", <<>>)>>),
          Type("std::map", <<Type("std::string", <<>>), Type("Variant", <<>>)>>)}

\* callables: a parameter list, with or without a leading error or result
Callables ==
    {Type("function", lead \o f) :
        lead \in {<<>>, <<Type("std::optional<Error>", <<>>)>>,
                  <<Type("Result", <<>>)>>},
        f \in Fields(ParamTypes)}

\* nothing is asked
SigIdle ==
    /\ sigType = Type("void", <<>>)
    /\ sigState = "declared"
    /\ sigValue = <<>>
    /\ sigValid = FALSE
    /\ sigTrivial = FALSE

\* signature_of<T> is instantiated for the type, or
\* signature_of_function_input_arguments<F> for the callable
SignatureOf_instantiate ==
    /\ sigState = "declared"
    /\ sigState' = "derived"
    /\ sigValue' = IF sigType.c = "function"
                   THEN signature_of_function_input_arguments(sigType)
                   ELSE signature_of(sigType)
    /\ sigValid' = IF sigType.c = "function"
                   THEN is_valid(tuple_of_function_input_arg_types(sigType))
                   ELSE is_valid(sigType)
    /\ sigTrivial' =
          IF sigType.c = "function"
          THEN is_trivial_dbus_type(tuple_of_function_input_arg_types(sigType))
          ELSE is_trivial_dbus_type(sigType)
    /\ UNCHANGED <<sigType, builderVars, asyncVars, signalVars, propVars,
                   slotVars, callVars, adaptorVars>>

\* ------------------------------------------------------------------------
\* Slot: std::unique_ptr<void, std::function<void(void*)>>
\* ------------------------------------------------------------------------

\* the Slot objects of the program
SlotObjects == {"a", "b", "c"}

\* the pointer of an empty Slot
Null == 0

NoSlot == [life |-> "none", ptr |-> Null]

SlotIdle ==
    /\ slots = [s \in SlotObjects |-> NoSlot]
    /\ registered = 0
    /\ deregistered = [r \in 1 .. MaxRegistrations |-> 0]

SlotStep ==
    UNCHANGED <<builderVars, asyncVars, signalVars, propVars, sigVars, callVars,
                adaptorVars>>

\* the deleter runs on pointer p, unless p is null
Deleted(p) ==
    IF p = Null THEN deregistered
    ELSE [deregistered EXCEPT ![p] = @ + 1]

\* mutant of the definition below: the pointer stays behind
unique_ptr_release_copying(p) == [returned |-> p, left |-> p]

\* unique_ptr::release(): the pointer is handed out and null is left
unique_ptr_release(p) == [returned |-> p, left |-> Null]

\* a registration is made and handed out as a Slot, as forInterface(name,
\* request_slot) does with the Slot of IObject::addVTable
Slot_create ==
    \E s \in SlotObjects :
        /\ slots[s].life # "alive"
        /\ registered < MaxRegistrations
        /\ registered' = registered + 1
        /\ slots' = [slots EXCEPT ![s] = [life |-> "alive",
                                          ptr |-> registered + 1]]
        /\ UNCHANGED deregistered
        /\ SlotStep

\* Slot{}: holds nothing
Slot_default ==
    \E s \in SlotObjects :
        /\ slots[s].life # "alive"
        /\ slots' = [slots EXCEPT ![s] = [life |-> "alive", ptr |-> Null]]
        /\ UNCHANGED <<registered, deregistered>>
        /\ SlotStep

\* Slot s{std::move(t)}
Slot_move_construct ==
    \E s \in SlotObjects, t \in SlotObjects :
        /\ s # t
        /\ slots[s].life # "alive"
        /\ slots[t].life = "alive"
        /\ LET r == unique_ptr_release(slots[t].ptr)
           IN  slots' = [slots EXCEPT ![t].ptr = r.left,
                                      ![s] = [life |-> "alive",
                                              ptr |-> r.returned]]
        /\ UNCHANGED <<registered, deregistered>>
        /\ SlotStep

\* s = std::move(t), also for s and t the same object: reset(t.release())
Slot_move_assign ==
    \E s \in SlotObjects, t \in SlotObjects :
        /\ slots[s].life = "alive"
        /\ slots[t].life = "alive"
        /\ LET r == unique_ptr_release(slots[t].ptr)
               released == [slots EXCEPT ![t].ptr = r.left]
               old == released[s].ptr
           IN  /\ slots' = [released EXCEPT ![s].ptr = r.returned]
               /\ deregistered' = Deleted(old)
        /\ UNCHANGED registered
        /\ SlotStep

\* s.reset()
Slot_reset ==
    \E s \in SlotObjects :
        /\ slots[s].life = "alive"
        /\ slots' = [slots EXCEPT ![s].ptr = Null]
        /\ deregistered' = Deleted(slots[s].ptr)
        /\ UNCHANGED registered
        /\ SlotStep

\* ~Slot
Slot_dtor ==
    \E s \in SlotObjects :
        /\ slots[s].life = "alive"
        /\ slots' = [slots EXCEPT ![s].life = "destroyed"]
        /\ deregistered' = Deleted(slots[s].ptr)
        /\ UNCHANGED registered
        /\ SlotStep

\* ------------------------------------------------------------------------
\* PendingAsyncCall: the call uponReplyInvoke hands to IProxy::callMethod
\* ------------------------------------------------------------------------

\* the error a call that timed out is completed with
TimeoutError == "timeout"

NoPendingCall == [state |-> "none", types |-> <<>>]

NoCancel == [returned |-> 0, runsAt |-> -1]

CallIdle ==
    /\ pendingCall = NoPendingCall
    /\ handlerRuns = <<>>
    /\ cancelLog = NoCancel
    /\ arrivals = 0

CallStep ==
    UNCHANGED <<builderVars, asyncVars, signalVars, propVars, sigVars, slotVars,
                adaptorVars>>

\* mutant of the definition below: the handler stays registered
PendingAsyncCall_registered_forever(state) == state # "none"

\* the reply handler is registered while the call is pending
PendingAsyncCall_registered(state) == state = "pending"

\* return proxy_.callMethod(method_, std::move(asyncReplyHandler), timeout_)
PendingAsyncCall_start ==
    \E types \in OutTypes :
        /\ pendingCall.state = "none"
        /\ pendingCall' = [state |-> "pending", types |-> types]
        /\ UNCHANGED <<handlerRuns, cancelLog, arrivals>>
        /\ CallStep

\* a reply, an error or a timeout comes for the call: the handler, when
\* registered, runs with it and the call is completed
PendingAsyncCall_complete(reply, error, cbThrows) ==
    /\ pendingCall.state # "none"
    /\ arrivals < MaxArrivals
    /\ arrivals' = arrivals + 1
    /\ IF PendingAsyncCall_registered(pendingCall.state)
       THEN /\ handlerRuns' = Append(handlerRuns,
                   [reply |-> reply, error |-> error,
                    callback |-> asyncReplyHandler(pendingCall.types, reply,
                                                   error, cbThrows).calls])
            /\ pendingCall' = [pendingCall EXCEPT !.state = "completed"]
       ELSE UNCHANGED <<handlerRuns, pendingCall>>
    /\ UNCHANGED cancelLog
    /\ CallStep

PendingAsyncCall_reply ==
    \E reply \in Replies, cbThrows \in BOOLEAN :
        PendingAsyncCall_complete(reply, "none", cbThrows)

PendingAsyncCall_error ==
    \E e \in RemoteErrors, cbThrows \in BOOLEAN :
        PendingAsyncCall_complete(<<>>, e, cbThrows)

PendingAsyncCall_timeout ==
    \E cbThrows \in BOOLEAN :
        PendingAsyncCall_complete(<<>>, TimeoutError, cbThrows)

\* PendingAsyncCall::cancel(), from call to return
PendingAsyncCall_cancel ==
    /\ pendingCall.state # "none"
    /\ cancelLog.returned < MaxCancels
    /\ pendingCall' = IF pendingCall.state = "pending"
                      THEN [pendingCall EXCEPT !.state = "cancelled"]
                      ELSE pendingCall
    /\ cancelLog' = [returned |-> cancelLog.returned + 1,
                     runsAt |-> IF cancelLog.runsAt = -1
                                THEN Len(handlerRuns)
                                ELSE cancelLog.runsAt]
    /\ UNCHANGED <<handlerRuns, arrivals>>
    /\ CallStep

\* ------------------------------------------------------------------------
\* perftests_adaptor, as sdbus-c++-xml2cpp generated it
\* ------------------------------------------------------------------------

INTERFACE_NAME == "org.sdbuscpp.perftests"

\* the strings emitDataSignal is called with
Data == {"", "x", "yy"}

ConstRef(n) == Type("&", <<Type("const", <<Type(n, <<>>)>>)>>)

\* what the three statements of the constructor register, in their order:
\* the methods with the input signature of their callables, the signal with
\* the signature of its declared parameters
perftests_adaptor_registrations ==
    <<[kind |-> "method", interface |-> INTERFACE_NAME,
       name |-> "sendDataSignals",
       signature |-> signature_of_function_input_arguments(
           Type("function", <<ConstRef("uint32_t"), ConstRef("uint32_t")>>))],
      [kind |-> "method", interface |-> INTERFACE_NAME,
       name |-> "concatenateTwoStrings",
       signature |-> signature_of_function_input_arguments(
           Type("function", <<ConstRef("std::string"),
                              ConstRef("std::string")>>))],
      [kind |-> "signal", interface |-> INTERFACE_NAME,
       name |-> "dataSignal",
       signature |-> value_as_string(signature_of(
           Type("std::tuple", <<Type("std::string", <<>>)>>)))]>>

AdaptorIdle ==
    /\ adaptor = "none"
    /\ vtable = <<>>
    /\ emitCalls = <<>>

AdaptorStep ==
    UNCHANGED <<builderVars, asyncVars, signalVars, propVars, sigVars, slotVars,
                callVars>>

\* perftests_adaptor(sdbus::IObject&): the registrations in order; the one
\* that fails, if any, ends the construction with an exception
perftests_adaptor_ctor ==
    \E failing \in 0 .. Len(perftests_adaptor_registrations) :
        /\ adaptor = "none"
        /\ IF failing = 0
           THEN /\ vtable' = perftests_adaptor_registrations
                /\ adaptor' = "constructed"
           ELSE /\ vtable' = SubSeq(perftests_adaptor_registrations, 1,
                                    failing - 1)
                /\ adaptor' = "failed"
        /\ UNCHANGED emitCalls
        /\ AdaptorStep

\* mutant of the definition below: the test is inverted
SignalEmitter_dtor_skips_at_same(now, then) == now = then

\* the test that opens ~SignalEmitter, on the counts of a temporary
SignalEmitter_dtor_skips_at(now, then) == now # then

\* emitDataSignal(data), called with n exceptions in flight:
\* object_->emitSignal("dataSignal").onInterface(INTERFACE_NAME)
\*     .withArguments(data), and the end of the temporary SignalEmitter
perftests_adaptor_emitDataSignal ==
    \E data \in Data, n \in 0 .. MaxUncaught, serializes \in BOOLEAN :
        LET created == createSignal(INTERFACE_NAME, "dataSignal")
            argument == [t |-> signature_of(decay(ConstRef("std::string")))[1],
                         v |-> data]
            signal == IF serializes
                      THEN serialize_pack(created, <<argument>>)
                      ELSE created
            now == IF serializes THEN n ELSE n + 1
        IN  /\ adaptor = "constructed"
            /\ Len(emitCalls) < MaxEmits
            /\ IF SignalEmitter_dtor_skips_at(now, n)
               THEN emitCalls' = Append(emitCalls,
                        [data |-> data, uncaught |-> n,
                         failed |-> IF serializes THEN "none" ELSE "serialize",
                         published |-> <<>>])
               ELSE \E outcome \in emitSignal_outcomes(signal) :
                        emitCalls' = Append(emitCalls,
                            [data |-> data, uncaught |-> n,
                             failed |-> IF ~serializes THEN "serialize"
                                        ELSE IF outcome = "error" THEN "emit"
                                        ELSE "none",
                             published |-> IF outcome = "published"
                                           THEN <<signal>> ELSE <<>>])
            /\ UNCHANGED <<adaptor, vtable>>
            /\ AdaptorStep

\* ------------------------------------------------------------------------
\* Specification of the builders
\* ------------------------------------------------------------------------

BuilderIdle ==
    /\ uncaught = 0
    /\ aborted = FALSE
    /\ kind = "none"
    /\ life = "none"
    /\ exceptions_ = 0
    /\ signalName_ = ""
    /\ methodName_ = ""
    /\ signal_ = InvalidMessage
    /\ method_ = InvalidMessage
    /\ timeout_ = 0
    /\ methodCalled_ = FALSE
    /\ emitted = <<>>
    /\ published = <<>>
    /\ callCount = 0
    /\ lastCall = NoCall
    /\ results = <<>>
    /\ ops = {}
    /\ lastOp = "none"
    /\ minSince = 0
    /\ threw = FALSE
    /\ dtorAt = -1
    /\ dtorRaised = FALSE

BuilderInit == BuilderIdle /\ packs = ArgPacks

SideIdle ==
    SignalIdle /\ PropIdle /\ SigIdle /\ SlotIdle /\ CallIdle /\ AdaptorIdle

Init == BuilderInit /\ AsyncIdle /\ SideIdle

Next ==
    \/ Throw
    \/ Catch
    \/ SignalEmitter_ctor
    \/ SignalEmitter_onInterface
    \/ SignalEmitter_withArguments
    \/ SignalEmitter_dtor
    \/ MethodInvoker_ctor
    \/ MethodInvoker_onInterface
    \/ MethodInvoker_withTimeout
    \/ MethodInvoker_withArguments
    \/ MethodInvoker_storeResultsTo
    \/ MethodInvoker_dontExpectReply
    \/ MethodInvoker_dtor
    \/ AsyncMethodInvoker_ctor
    \/ AsyncMethodInvoker_onInterface
    \/ AsyncMethodInvoker_withTimeout
    \/ AsyncMethodInvoker_withArguments
    \/ AsyncMethodInvoker_uponReplyInvoke
    \/ AsyncMethodInvoker_getResultAsFuture
    \/ AsyncMethodInvoker_dtor

Spec == Init /\ [][Next]_vars

\* ------------------------------------------------------------------------
\* Specification of an asynchronous call, from the builder to the reply
\* ------------------------------------------------------------------------

\* AsyncMethodInvoker never reads std::uncaught_exceptions(): the program's
\* own throwing and catching is left out here
NextAsync ==
    \/ AsyncMethodInvoker_ctor
    \/ AsyncMethodInvoker_dtor
    \/ AsyncMethodInvoker_onInterface
    \/ AsyncMethodInvoker_withTimeout
    \/ AsyncMethodInvoker_withArguments
    \/ AsyncMethodInvoker_uponReplyInvoke
    \/ AsyncMethodInvoker_getResultAsFuture
    \/ AsyncReplyHandler_run

SpecAsync == Init /\ [][NextAsync]_vars

\* ------------------------------------------------------------------------
\* Specification of the message under construction
\* ------------------------------------------------------------------------

InitArguments == BuilderIdle /\ packs = OrderedPacks /\ AsyncIdle /\ SideIdle

\* what makes, fills and hands over the message; a failure of withArguments
\* is handled before the builder goes on
NextArguments ==
    \/ Catch
    \/ SignalEmitter_ctor
    \/ SignalEmitter_onInterface
    \/ SignalEmitter_withArguments
    \/ SignalEmitter_dtor
    \/ MethodInvoker_ctor
    \/ MethodInvoker_onInterface
    \/ MethodInvoker_withArguments
    \/ MethodInvoker_storeResultsTo
    \/ MethodInvoker_dtor
    \/ AsyncMethodInvoker_ctor
    \/ AsyncMethodInvoker_onInterface
    \/ AsyncMethodInvoker_withArguments
    \/ AsyncMethodInvoker_uponReplyInvoke
    \/ AsyncMethodInvoker_dtor

SpecArguments == InitArguments /\ [][NextArguments]_vars

\* ------------------------------------------------------------------------
\* Specification of a signal subscription
\* ------------------------------------------------------------------------

NextSignal ==
    \/ SignalSubscriber_ctor
    \/ SignalSubscriber_onInterface
    \/ SignalSubscriber_call
    \/ SignalHandler_run

SpecSignal == Init /\ [][NextSignal]_vars

\* ------------------------------------------------------------------------
\* Specification of the synchronous property accessors
\* ------------------------------------------------------------------------

NextProps ==
    \/ Throw
    \/ Catch
    \/ PropertyGetter_ctor
    \/ PropertyGetter_onInterface
    \/ AllPropertiesGetter_ctor
    \/ AllPropertiesGetter_onInterface
    \/ PropertySetter_ctor
    \/ PropertySetter_onInterface
    \/ PropertySetter_interfaceName_dies
    \/ PropertySetter_toValue_reply
    \/ PropertySetter_toValue_dont_expect_reply

SpecProps == Init /\ [][NextProps]_vars

\* ------------------------------------------------------------------------
\* Specification of the signature templates: any type, then its signature
\* ------------------------------------------------------------------------

InitSignature ==
    /\ BuilderInit /\ AsyncIdle /\ SignalIdle /\ PropIdle /\ SlotIdle
    /\ CallIdle /\ AdaptorIdle
    /\ sigType \in Types \cup Callables
    /\ sigState = "declared"
    /\ sigValue = <<>>
    /\ sigValid = FALSE
    /\ sigTrivial = FALSE

NextSignature == SignatureOf_instantiate

SpecSignature == InitSignature /\ [][NextSignature]_vars

\* ------------------------------------------------------------------------
\* Specification of the Slots
\* ------------------------------------------------------------------------

NextSlot ==
    \/ Slot_create
    \/ Slot_default
    \/ Slot_move_construct
    \/ Slot_move_assign
    \/ Slot_reset
    \/ Slot_dtor

SpecSlot == Init /\ [][NextSlot]_vars

\* ------------------------------------------------------------------------
\* Specification of the pending call
\* ------------------------------------------------------------------------

NextCall ==
    \/ PendingAsyncCall_start
    \/ PendingAsyncCall_reply
    \/ PendingAsyncCall_error
    \/ PendingAsyncCall_timeout
    \/ PendingAsyncCall_cancel

\* the timeout of a pending call fires unless something else ends the call
SpecCall == Init /\ [][NextCall]_vars /\ WF_vars(PendingAsyncCall_timeout)

\* ------------------------------------------------------------------------
\* Specification of the adaptor
\* ------------------------------------------------------------------------

NextAdaptor ==
    \/ perftests_adaptor_ctor
    \/ perftests_adaptor_emitDataSignal

SpecAdaptor == Init /\ [][NextAdaptor]_vars

\* ------------------------------------------------------------------------
\* Properties of the builders
\* ------------------------------------------------------------------------

IsEmitter == kind = "SignalEmitter"
IsInvoker == kind = "MethodInvoker"

\* a failure that started after the builder's construction was still
\* propagating when the builder was destroyed (exceptions are caught
\* innermost first, so those above the lowest count seen are the later ones)
FailedSince == dtorAt > minSince

\* C1, as stated: a SignalEmitter destroyed while a failure that started
\* after its construction is propagating never called emitSignal; one
\* destroyed with no failure since its construction called it exactly once;
\* while alive it never called it.
C1_AsStated ==
    IsEmitter =>
        /\ life = "live" => emitted = <<>>
        /\ life = "destroyed" /\ FailedSince => emitted = <<>>
        /\ life = "destroyed" /\ ~threw => Len(emitted) = 1

\* C1, amended: emitSignal is called exactly once, by the destructor and with
\* signal_, when the number of failures in flight at destruction equals the
\* number at construction; otherwise, more or fewer, it is never called.
C1_EmitsIffCountUnchanged ==
    IsEmitter =>
        /\ life = "live" => emitted = <<>>
        /\ life = "destroyed" =>
              emitted = IF dtorAt = exceptions_ THEN <<signal_>> ELSE <<>>

C1_Witness ==
    /\ IsEmitter /\ life = "destroyed"
    /\ isValid(signal_) /\ signal_.args # <<>>
    /\ threw /\ dtorAt > exceptions_
    /\ emitted = <<>>

\* C2, as stated: a MethodInvoker on which storeResultsTo was never called
\* calls callMethod exactly once, with method_ and timeout_, when destroyed
\* with no failure since its construction, and never when a failure that
\* started after its construction is propagating at its destruction.
C2_AsStated ==
    (IsInvoker /\ life = "destroyed" /\ "storeResultsTo" \notin ops) =>
        /\ ~threw => callCount = 1 /\ lastCall = SyncCall(method_, timeout_)
        /\ FailedSince => callCount = 0

\* C2, amended: such an invoker calls callMethod exactly once, with method_
\* and timeout_, when the number of failures in flight at destruction equals
\* the number at construction; otherwise it never calls it.
C2_CallsIffCountUnchanged ==
    (IsInvoker /\ "storeResultsTo" \notin ops) =>
        /\ life = "live" => callCount = 0
        /\ life = "destroyed" =>
              IF dtorAt = exceptions_
              THEN callCount = 1 /\ lastCall = SyncCall(method_, timeout_)
              ELSE callCount = 0

C2_Witness ==
    /\ IsInvoker /\ life = "destroyed" /\ "storeResultsTo" \notin ops
    /\ isValid(method_) /\ timeout_ \in Timeouts
    /\ dtorAt = exceptions_ /\ ~threw
    /\ callCount = 1

\* C3, as stated: no builder destructor raises its commit error while
\* another error is in flight.
C3_AsStated == dtorRaised => dtorAt = 0

\* C3, amended: a builder destructor raises its commit error only when as
\* many errors are in flight as were at the builder's construction.
C3_RaisesOnlyAtConstructionCount ==
    dtorRaised => dtorAt = exceptions_ /\ (IsEmitter \/ IsInvoker)

C3_Witness ==
    /\ IsEmitter /\ dtorRaised
    /\ dtorAt > 0 /\ dtorAt = exceptions_

\* C4: over the lifetime of one MethodInvoker, callMethod is invoked at most
\* once.
C4_CallsAtMostOnce == IsInvoker => callCount <= 1

\* C21: over the lifetime of one AsyncMethodInvoker, the asynchronous
\* callMethod is invoked at most once.
C21_CommitsAtMostOnce == kind = "AsyncMethodInvoker" => callCount <= 1

\* C25: an AsyncMethodInvoker on which neither uponReplyInvoke nor
\* getResultAsFuture was invoked, alive or destroyed, with or without a
\* failure in flight, has dispatched no call and registered no reply handler.
C25_NoScopeExitCommit ==
    (kind = "AsyncMethodInvoker" /\ "uponReplyInvoke" \notin ops
       /\ "getResultAsFuture" \notin ops) =>
        /\ callCount = 0
        /\ lastCall = NoCall
        /\ pending = "none"
        /\ ~handler.registered

C25_Witness ==
    /\ kind = "AsyncMethodInvoker" /\ life = "destroyed"
    /\ ops = {"onInterface"}
    /\ method_.args = <<1, 2>> /\ timeout_ = 5
    /\ threw /\ dtorAt > 0
    /\ callCount = 0

\* the step in which the destructor of the builder runs
DestructorRuns == life = "live" /\ life' = "destroyed"

\* the destructor of a SignalEmitter, or of a MethodInvoker whose
\* methodCalled_ is not set, commits exactly when the count of exceptions
\* in flight is the one recorded at construction
CommitsIffSameCount ==
    /\ (DestructorRuns /\ IsEmitter) =>
          IF uncaught = exceptions_
          THEN emitted' = Append(emitted, signal_)
          ELSE emitted' = emitted
    /\ (DestructorRuns /\ IsInvoker /\ ~methodCalled_) =>
          IF uncaught = exceptions_
          THEN /\ callCount' = callCount + 1
               /\ lastCall' = SyncCall(method_, timeout_)
          ELSE /\ callCount' = callCount
               /\ lastCall' = lastCall

\* C26: the scope-exit commit of a SignalEmitter and of a MethodInvoker not
\* yet called runs if and only if the number of exceptions in flight at
\* destruction equals the number recorded at construction, whatever that
\* number is; with a lower number as with a higher one it does not run.
C26_CommitIffSameCount == [][CommitsIffSameCount]_vars

C26_Witness ==
    /\ IsInvoker /\ life = "destroyed" /\ ~methodCalled_
    /\ isValid(method_)
    /\ exceptions_ = 2 /\ dtorAt = 1 /\ ~threw
    /\ callCount = 0

\* the message the live builder is constructing
Message == IF IsEmitter THEN signal_ ELSE method_

\* the arguments a withArguments call may have appended: a pack, or what
\* was serialized of it before the failure
Appended == UNION {{SubSeq(p, 1, k) : k \in 0 .. Len(p)} : p \in packs}

\* one step of a builder, as the arguments see it
ArgumentsStep ==
    /\ lastOp' = "ctor" => Message'.args = <<>>
    /\ lastOp' = "onInterface" => Message'.args = <<>>
    /\ lastOp' = "withArguments" =>
          \E a \in Appended : Message'.args = Message.args \o a
    /\ lastOp' \notin {"ctor", "onInterface", "withArguments"} =>
          Message'.args = Message.args
    /\ Len(emitted') > Len(emitted) =>
          emitted' = Append(emitted, Message)
    /\ callCount' > callCount => lastCall'.msg = Message

\* C22: the arguments of the message under construction are empty after
\* the construction and after every onInterface, grow at their end by what a
\* withArguments call appends, in the order given, and change in no other
\* step; emitSignal and callMethod are handed that message.
C22_ArgumentsInOrder == [][ArgumentsStep]_vars

C22_Witness ==
    /\ IsInvoker /\ life = "destroyed" /\ ~dtorRaised
    /\ callCount = 1
    /\ lastCall.msg.args = <<1, 3>>

\* the parameter and terminal steps of the builders
Steps ==
    {"withArguments", "withTimeout", "storeResultsTo", "dontExpectReply",
     "uponReplyInvoke", "getResultAsFuture"}

\* C5: a parameter or terminal step invoked on a builder on which
\* onInterface was not invoked ends in a failing assertion.
C5_StepBeforeOnInterfaceAborts ==
    (lastOp \in Steps /\ "onInterface" \notin ops) => aborted

\* C6: a SignalEmitter on which onInterface was never called, destroyed with
\* as many failures in flight as at its construction, hands the invalid
\* message to emitSignal, which fails: nothing is published and the error
\* leaves the destructor.
C6_InvalidSignalCommitFails ==
    (IsEmitter /\ life = "destroyed" /\ "onInterface" \notin ops
       /\ dtorAt = exceptions_) =>
        /\ emitted = <<InvalidMessage>>
        /\ published = <<>>
        /\ dtorRaised

C6_Witness ==
    /\ IsEmitter /\ life = "destroyed" /\ "onInterface" \notin ops
    /\ dtorAt = exceptions_ /\ ~threw
    /\ dtorRaised

\* C7: a MethodInvoker whose last step was dontExpectReply, with no
\* storeResultsTo and no failure since its construction, dispatches nothing
\* while alive and exactly one call at its destruction: through the
\* synchronous overload (no reply handler), marked no-reply, not waited for.
C7_NoReplyCall ==
    (IsInvoker /\ lastOp = "dontExpectReply" /\ ~aborted
       /\ "storeResultsTo" \notin ops /\ ~threw) =>
        /\ life = "live" => callCount = 0
        /\ (life = "destroyed" /\ dtorAt = exceptions_) =>
              /\ callCount = 1
              /\ lastCall.msg = method_
              /\ lastCall.msg.noReply
              /\ ~lastCall.handler
              /\ ~lastCall.waited

C7_Witness ==
    /\ IsInvoker /\ lastOp = "dontExpectReply" /\ ~aborted
    /\ "storeResultsTo" \notin ops /\ ~threw
    /\ life = "destroyed" /\ dtorAt = exceptions_ /\ ~dtorRaised
    /\ method_.args # <<>>
    /\ callCount = 1

\* ------------------------------------------------------------------------
\* Properties of the asynchronous reply
\* ------------------------------------------------------------------------

\* the reply handed to the handler holds, in order, values of the types of
\* the callback's parameters
ReplyFits ==
    /\ Len(delivered.reply) >= Len(handler.types)
    /\ \A i \in 1 .. Len(handler.types) :
          delivered.reply[i].t = handler.types[i]

\* the values of such a reply
ReplyValues == [i \in 1 .. Len(handler.types) |-> delivered.reply[i].v]

\* value-initialized callback arguments
FreshArgs == [i \in 1 .. Len(handler.types) |-> Default(handler.types[i])]

\* C8: the reply handler invokes the callback exactly once per run and not
\* before: (a) with no error and the values of a reply that deserializes,
\* (b) with the deserialization error when the reply does not deserialize,
\* (c) with the error it was given and untouched arguments, whatever the
\* reply holds.
C8_CallbackExactlyOnce ==
    /\ ~delivered.ran => callbackLog = <<>>
    /\ delivered.ran =>
          /\ Len(callbackLog) = 1
          /\ (delivered.error = "none" /\ ReplyFits) =>
                callbackLog[1] = Invocation("none", ReplyValues)
          /\ (delivered.error = "none" /\ ~ReplyFits) =>
                callbackLog[1].error = DeserializeError
          /\ delivered.error # "none" =>
                callbackLog[1] = Invocation(delivered.error, FreshArgs)

C8_Witness ==
    /\ delivered.ran /\ ~handler.future
    /\ delivered.error = "none" /\ ~ReplyFits
    /\ callbackLog = <<Invocation(DeserializeError, <<"7", "">>)>>

\* C9: a deserialization error never leaves the reply handler: only an
\* exception of the callback itself can, and when the reply does not
\* deserialize the callback got the error and, the callback returning, the
\* handler returned normally.
C9_DeserializeErrorStaysInside ==
    /\ escaped \in {"none", CallbackException}
    /\ (delivered.ran /\ ~delivered.cbThrows) => escaped = "none"
    /\ (delivered.ran /\ delivered.error = "none" /\ ~ReplyFits) =>
          /\ Len(callbackLog) >= 1
          /\ callbackLog[1].error = DeserializeError

C9_Witness ==
    /\ delivered.ran /\ ~delivered.cbThrows
    /\ delivered.error = "none" /\ delivered.reply = <<StrX>>
    /\ handler.types = <<"i">>
    /\ callbackLog # <<>>
    /\ escaped = "none"

\* the shape future_return_t gives to a future of the handler's types
FutureShape ==
    IF Len(handler.types) = 0 THEN "void"
    ELSE IF Len(handler.types) = 1 THEN "T" ELSE "tuple"

\* C10: the promise behind getResultAsFuture is untouched until the reply
\* handler runs and is then set exactly once: to the reply's values (void,
\* the value, the tuple) when no error was given and the reply deserializes,
\* else to an exception holding the error given or the deserialization error.
C10_FutureCompletedOnce ==
    handler.future =>
        /\ ~delivered.ran => promise = EmptyPromise
        /\ delivered.ran =>
              /\ promise.sets = 1
              /\ IF delivered.error = "none" /\ ReplyFits
                 THEN /\ promise.state = "value"
                      /\ promise.shape = FutureShape
                      /\ promise.v = ReplyValues
                 ELSE /\ promise.state = "exception"
                      /\ promise.error = IF delivered.error # "none"
                                         THEN delivered.error
                                         ELSE DeserializeError

C10_Witness ==
    /\ handler.future /\ delivered.ran
    /\ delivered.error \in RemoteErrors /\ delivered.reply = <<Int3, StrX>>
    /\ handler.types = <<"i", "s">>
    /\ promise.state = "exception" /\ promise.error = delivered.error

\* ------------------------------------------------------------------------
\* Properties of the signal handlers
\* ------------------------------------------------------------------------

\* the payload holds, in order, values of the given types
Fits(types, payload) ==
    /\ Len(payload) >= Len(types)
    /\ \A i \in 1 .. Len(types) : payload[i].t = types[i]

\* the values of such a payload
ValuesOf(types, payload) == [i \in 1 .. Len(types) |-> payload[i].v]

\* a value-initialized argument tuple of the given types
DefaultsOf(types) == [i \in 1 .. Len(types) |-> Default(types[i])]

\* C11: a handler whose callback takes the error parameter invokes the
\* callback exactly once per signal: with no error and the decoded values
\* when the signal deserializes, else with the deserialization error and a
\* value-initialized argument tuple; only an exception of the callback
\* itself leaves the handler.
C11_AsStated ==
    signalHandler_.has_error_param =>
        \A k \in 1 .. Len(signals) :
            /\ Len(signalLog[k]) = 1
            /\ signalLog[k][1] =
                  IF Fits(signalHandler_.types, signals[k])
                  THEN Invocation("none",
                                  ValuesOf(signalHandler_.types, signals[k]))
                  ELSE Invocation(DeserializeError,
                                  DefaultsOf(signalHandler_.types))
            /\ signalEscaped[k] \in {"none", CallbackException}

AccessorDispatched ==
    /\ accessor.state = "done"
    /\ propResult.failed # "serialize"
    /\ ~propResult.dangling

\* the method and the arguments each accessor has to send
AccessorMember ==
    IF accessor.kind = "PropertyGetter" THEN "Get"
    ELSE IF accessor.kind = "PropertySetter" THEN "Set" ELSE "GetAll"

AccessorArgs ==
    IF accessor.kind = "PropertyGetter"
    THEN <<String(propResult.interface), String(accessor.propertyName_)>>
    ELSE IF accessor.kind = "PropertySetter"
    THEN <<String(propResult.interface), String(accessor.propertyName_),
           Variant(propResult.value)>>
    ELSE <<String(propResult.interface)>>

\* C13: an accessor never causes two calls and none before its terminal
\* step; once that step ran it caused exactly one, of Get(i, property),
\* Set(i, property, v) or GetAll(i) on org.freedesktop.DBus.Properties, and
\* a getter that returns normally returns the value decoded from the reply.
C13_AccessorCallsOnce ==
    /\ Len(propCalls) <= 1
    /\ accessor.state # "done" => propCalls = <<>>
    /\ AccessorDispatched =>
          /\ Len(propCalls) = 1
          /\ propCalls[1].msg.type = "call"
          /\ propCalls[1].msg.interface = PropertiesInterface
          /\ propCalls[1].msg.member = AccessorMember
          /\ propCalls[1].msg.args = AccessorArgs
          /\ (accessor.kind # "PropertySetter" /\ ~propResult.raised) =>
                /\ propResult.reply # <<>>
                /\ propResult.value = propResult.reply[1].v

C13_Witness ==
    /\ AccessorDispatched
    /\ accessor.kind = "PropertyGetter"
    /\ ~propResult.raised
    /\ propResult.value = "7"
    /\ Len(propCalls) = 1
    /\ uncaught = 1

\* C14: the Set call of the synchronous setter is marked no-reply exactly
\* when the dont_expect_reply overload of toValue made it, and carries
\* (interface, property, Variant of the value) in both overloads.
C14_NoReplyIffOverload ==
    (AccessorDispatched /\ accessor.kind = "PropertySetter") =>
        /\ Len(propCalls) = 1
        /\ propCalls[1].msg.noReply = propResult.dont_expect_reply
        /\ propCalls[1].waited = ~propResult.dont_expect_reply
        /\ propCalls[1].msg.args =
              <<String(accessor.interfaceName_),
                String(accessor.propertyName_), Variant(propResult.value)>>

C14_Witness ==
    /\ AccessorDispatched /\ accessor.kind = "PropertySetter"
    /\ ~propResult.dont_expect_reply
    /\ ~propResult.raised
    /\ Len(propCalls) = 1
    /\ ~propCalls[1].msg.noReply

\* ------------------------------------------------------------------------
\* Properties of the signatures
\* ------------------------------------------------------------------------

\* the sequences one after the other
RECURSIVE Concatenation(_)
Concatenation(seqs) ==
    IF seqs = <<>> THEN <<>> ELSE Head(seqs) \o Concatenation(Tail(seqs))

\* the signatures of the types in a list
SignaturesOf(types) == [i \in 1 .. Len(types) |-> signature_of(types[i])]

\* the parameters of a callable that are its input arguments
InputParameters(F) ==
    IF F.args # <<>> /\ F.args[1].c \in {"std::optional<Error>", "Result"}
    THEN Tail(F.args) ELSE F.args

\* C15: the input-argument signature of a callable is the signatures of its
\* parameters one after the other, nothing around them (empty for none); so
\* is that of a std::tuple, and the Struct of the same types has exactly '('
\* and ')' more.
C15_FlatConcatenation ==
    sigState = "derived" =>
        /\ sigType.c = "function" =>
              sigValue = Concatenation(SignaturesOf(InputParameters(sigType)))
        /\ sigType.c = "std::tuple" =>
              /\ sigValue = Concatenation(SignaturesOf(sigType.args))
              /\ sigType.args # <<>> =>
                    signature_of(Type("Struct", sigType.args))
                        = <<"(">> \o sigValue \o <<")">>

C15_Witness ==
    /\ sigState = "derived"
    /\ sigType.c = "function"
    /\ Len(sigType.args) = 3
    /\ sigType.args[1].c = "std::optional<Error>"
    /\ sigType.args[3].c = "&"
    /\ sigValue = <<"i", "s">>

\* the signature the composition rules give to a type
RECURSIVE TableSignature(_)
TableSignature(T) ==
    LET of == [i \in 1 .. Len(T.args) |-> TableSignature(T.args[i])]
    IN  CASE T.c = "Struct" -> <<"(">> \o Concatenation(of) \o <<")">>
          [] T.c \in {"Variant", "std::variant"} -> <<"v">>
          [] T.c = "DictEntry" -> <<"{">> \o of[1] \o of[2] \o <<"}">>
          [] T.c \in {"std::vector", "std::array", "std::span"} ->
                <<"a">> \o of[1]
          [] T.c \in {"std::map", "std::unordered_map"} ->
                <<"a", "{">> \o of[1] \o of[2] \o <<"}">>
          [] T.c \in Qualifiers \cup {"enum"} -> of[1]
          [] T.c = "std::tuple" -> Concatenation(of)
          [] T.c \in StringLike -> <<"s">>
          [] T.c = "void" -> <<>>
          [] OTHER -> <<BasicSignature[T.c]>>

\* C16: the derived signature of every type is the one the composition rules
\* give: '(' fields ')' for Struct, 'v' for Variant and std::variant,
\* '{' key value '}' for DictEntry, 'a' element for vector, array and span,
\* 'a{' key value '}' for map and unordered_map, and that of T for a
\* qualified T.
C16_StructuralTable ==
    (sigState = "derived" /\ sigType.c # "function") =>
        sigValue = TableSignature(sigType)

C16_Witness ==
    /\ sigState = "derived"
    /\ sigType.c = "std::unordered_map"
    /\ sigType.args[2].c = "std::map"
    /\ sigValue = <<"a", "{", "i", "a", "{", "s", "v", "}", "}">>

\* characters of the basic types, and of all types
BasicCharacters ==
    {"y", "n", "q", "i", "u", "x", "t", "d", "b", "s", "o", "g", "h"}

Alphabet == BasicCharacters \cup {"v", "a", "(", ")", "{", "}"}

\* the position after the complete type that starts at position i of the
\* signature, 0 if none starts there; EndOfFields: after the ')' that closes
\* the fields from position i on, n of them read already
RECURSIVE EndOfType(_, _), EndOfFields(_, _, _)
EndOfType(sig, i) ==
    IF i > Len(sig) THEN 0
    ELSE CASE sig[i] \in BasicCharacters \cup {"v"} -> i + 1
           [] sig[i] = "a" -> EndOfType(sig, i + 1)
           [] sig[i] = "(" -> EndOfFields(sig, i + 1, 0)
           [] sig[i] = "{" ->
                 IF i + 1 <= Len(sig) /\ sig[i + 1] \in BasicCharacters
                 THEN LET e == EndOfType(sig, i + 2)
                      IN  IF e # 0 /\ e <= Len(sig) /\ sig[e] = "}"
                          THEN e + 1 ELSE 0
                 ELSE 0
           [] OTHER -> 0

EndOfFields(sig, i, n) ==
    IF i > Len(sig) THEN 0
    ELSE IF sig[i] = ")" THEN (IF n >= 1 THEN i + 1 ELSE 0)
    ELSE LET e == EndOfType(sig, i)
         IN  IF e = 0 THEN 0 ELSE EndOfFields(sig, e, n + 1)

\* C17: the signature of a type reported valid is not empty, is written in
\* the D-Bus type alphabet and is one complete type, each dict entry with a
\* basic key and one complete value.
C17_ValidImpliesWellFormed ==
    (sigState = "derived" /\ sigType.c # "function" /\ sigValid) =>
        /\ sigValue # <<>>
        /\ \A i \in 1 .. Len(sigValue) : sigValue[i] \in Alphabet
        /\ EndOfType(sigValue, 1) = Len(sigValue) + 1

\* the fixed-width scalar types
FixedWidthScalars ==
    Named({"bool", "uint8_t", "int16_t", "uint16_t", "int32_t", "uint32_t",
           "int64_t", "uint64_t", "double"})

\* the type a qualified type or an enumeration inherits from
RECURSIVE Inherited(_)
Inherited(T) ==
    IF T.c \in Qualifiers \cup {"enum"} THEN Inherited(T.args[1]) ELSE T

\* C23: is_trivial_dbus_type is true exactly for the fixed-width scalar types
\* and the qualified types and enumerations that inherit one of them, and
\* false for every other type.
C23_TrivialIffScalar ==
    (sigState = "derived" /\ sigType.c # "function") =>
        (sigTrivial <=> Inherited(sigType) \in FixedWidthScalars)

C23_Witness ==
    /\ sigState = "derived"
    /\ sigType = Type("const", <<Type("enum", <<Type("uint8_t", <<>>)>>)>>)
    /\ sigTrivial

\* the type with every enumeration in it replaced by its underlying type
RECURSIVE Underlying(_)
Underlying(T) ==
    IF T.c = "enum" THEN Underlying(T.args[1])
    ELSE Type(T.c, [i \in 1 .. Len(T.args) |-> Underlying(T.args[i])])

\* C24: a type with an enumeration in it, at the top, under a qualifier or
\* inside an array, struct or map, has the signature, validity and triviality
\* of the type with the underlying integer in the enumeration's place.
C24_EnumAsUnderlying ==
    (sigState = "derived" /\ sigType.c # "function") =>
        /\ sigValue = signature_of(Underlying(sigType))
        /\ sigValid = is_valid(Underlying(sigType))
        /\ sigTrivial = is_trivial_dbus_type(Underlying(sigType))

C24_Witness ==
    /\ sigState = "derived"
    /\ sigType = Type("std::map", <<Type("enum", <<Type("uint8_t", <<>>)>>),
                                    Type("enum", <<Type("uint8_t", <<>>)>>)>>)
    /\ sigValue = <<"a", "{", "y", "y", "}">>
    /\ sigValid /\ ~sigTrivial

\* ------------------------------------------------------------------------
\* Properties of the Slots
\* ------------------------------------------------------------------------

\* the living Slots that hold registration r
Owners(r) == {s \in SlotObjects : slots[s].life = "alive" /\ slots[s].ptr = r}

\* C18: every registration handed out is either held by exactly one living
\* Slot and not deregistered, or held by none and deregistered exactly once;
\* a registration not made yet is never deregistered.
C18_ReleasedExactlyOnce ==
    \A r \in 1 .. MaxRegistrations :
        IF r <= registered
        THEN \/ Cardinality(Owners(r)) = 1 /\ deregistered[r] = 0
             \/ Owners(r) = {} /\ deregistered[r] = 1
        ELSE Owners(r) = {} /\ deregistered[r] = 0

C18_Witness ==
    /\ registered = 2
    /\ slots["a"] = [life |-> "alive", ptr |-> Null]
    /\ slots["b"] = [life |-> "alive", ptr |-> 2]
    /\ slots["c"].life = "destroyed"
    /\ deregistered = <<1, 0>>

\* ------------------------------------------------------------------------
\* Properties of the pending call
\* ------------------------------------------------------------------------

\* the handler ran at most once, with the reply, a remote error or the
\* timeout error, exactly when the call is completed, and not since the
\* first cancel() returned
HandlerRunsOnce ==
    /\ Len(handlerRuns) <= 1
    /\ pendingCall.state = "completed" <=> Len(handlerRuns) = 1
    /\ \A i \in 1 .. Len(handlerRuns) :
          /\ handlerRuns[i].error \in {"none", TimeoutError} \cup RemoteErrors
          /\ Len(handlerRuns[i].callback) = 1
    /\ cancelLog.runsAt # -1 => Len(handlerRuns) = cancelLog.runsAt

\* the state moves only none -> pending -> completed | cancelled, and a
\* cancel() on a completed call changes neither the state nor the runs
StateMovesForward ==
    /\ pendingCall'.state # pendingCall.state =>
          \/ pendingCall.state = "none" /\ pendingCall'.state = "pending"
          \/ /\ pendingCall.state = "pending"
             /\ pendingCall'.state \in {"completed", "cancelled"}
    /\ pendingCall.state = "completed" => handlerRuns' = handlerRuns

\* C19: under every interleaving of reply, remote error, timeout and
\* cancel(), the handler runs at most once and never after a cancel() has
\* returned, a cancel() after completion changes nothing, the state moves
\* only pending -> completed or pending -> cancelled, both terminal, and a
\* pending call that is never cancelled gets its handler run exactly once.
C19_HandlerOnceOrCancelled ==
    /\ []HandlerRunsOnce
    /\ [][StateMovesForward]_vars
    /\ (pendingCall.state = "pending") ~>
          (Len(handlerRuns) = 1 \/ cancelLog.returned > 0)

C19_Witness ==
    /\ pendingCall.state = "cancelled"
    /\ cancelLog.returned = 1
    /\ arrivals = 2
    /\ handlerRuns = <<>>

\* ------------------------------------------------------------------------
\* Properties of the adaptor
\* ------------------------------------------------------------------------

\* what is registered under the name on the interface
Registered(what, interface, name) ==
    {r \in {vtable[i] : i \in 1 .. Len(vtable)} :
        r.kind = what /\ r.interface = interface /\ r.name = name}

\* the signature of the payload of a message
PayloadSignature(m) == [i \in 1 .. Len(m.args) |-> m.args[i].t]

\* C20: an emitDataSignal call is made only on an adaptor whose constructor
\* registered the methods sendDataSignals and concatenateTwoStrings and the
\* signal dataSignal with one string parameter on org.sdbuscpp.perftests, and
\* every such call that did not fail emitted exactly one signal dataSignal
\* on that interface, its payload the string given, its signature the
\* registered one.
C20_RegisteredThenEmitsOne ==
    emitCalls # <<>> =>
        /\ adaptor = "constructed"
        /\ Registered("method", "org.sdbuscpp.perftests", "sendDataSignals")
               # {}
        /\ Registered("method", "org.sdbuscpp.perftests",
                      "concatenateTwoStrings") # {}
        /\ \E r \in Registered("signal", "org.sdbuscpp.perftests",
                               "dataSignal") : r.signature = <<"s">>
        /\ \A i \in 1 .. Len(emitCalls) :
              emitCalls[i].failed = "none" =>
                  /\ Len(emitCalls[i].published) = 1
                  /\ LET m == emitCalls[i].published[1]
                     IN  /\ m.type = "signal"
                         /\ m.interface = "org.sdbuscpp.perftests"
                         /\ m.member = "dataSignal"
                         /\ m.args = <<[t |-> "s", v |-> emitCalls[i].data]>>
                         /\ \A r \in Registered("signal", m.interface,
                                                m.member) :
                                PayloadSignature(m) = r.signature

C20_Witness ==
    /\ Len(emitCalls) = 2
    /\ emitCalls[1].failed = "serialize"
    /\ emitCalls[2].failed = "none"
    /\ emitCalls[2].uncaught = 1
    /\ emitCalls[2].data = "yy"
    /\ Len(emitCalls[2].published) = 1

====
